---- MODULE Spec2Model ----
(***************************************************************************)
(* Model of examples/alloopback.c: main() drives an SDL audio stream whose *)
(* fill-buffer callback RenderSDLSamples pulls frames from an OpenAL       *)
(* loopback device.  Two threads: main and the SDL audio callback thread.  *)
(* Every external call (SDL, ALC, AL) may succeed or fail; the outcome is  *)
(* a nondeterministic choice of the environment.                           *)
(***************************************************************************)
EXTENDS Integers, Sequences, FiniteSets

VARIABLES
    pc,         \* position of main
    exit,       \* "running", "return0", "return1" or "abort"
    ndebug,     \* whether the build defines NDEBUG (assert compiled out)
    sdl,        \* SDL audio subsystem: "off", "on", "quit"
    audio,      \* SDL audio stream: "none", "open", "closing", "closed"
    paused,     \* SDL pause flag of the stream
    cb,         \* callback thread: "idle" or "rendering" (inside RenderSDLSamples)
    fault,      \* the callback divided by zero or rendered on a dead handle
    obtained,   \* SDL_AudioSpec obtained
    attrs,      \* ALCint attrs[]: the slots 1, 3 and 5
    playback,   \* PlaybackInfo playback
    devObj,     \* the loopback device object: "none", "open", "closed"
    ctxObj,     \* the render context object: "none", "live", "destroyed"
    current,    \* the context is the current context
    checked,    \* arguments and result of alcIsRenderFormatSupportedSOFT
    ctxAttrs,   \* the attribute list alcCreateContext was given
    buffer,     \* ALuint buffer
    bufObj,     \* the buffer object: "none", "live", "deleted"
    source,     \* ALuint source
    srcObj,     \* the source object: "none", "live", "deleted"
    srcBuffer,  \* the buffer id attached to the source (0: none)
    srcState,   \* AL_SOURCE_STATE of the source
    remaining,  \* output frames the source still has to play
    alError,    \* the AL error latch (alGetError reads and clears it)
    state,      \* ALenum state
    polled,     \* what the last poll observed: "none", "state", "error"
    log         \* the external calls made so far: <<name, ok>>

vars == <<pc, exit, ndebug, sdl, audio, paused, cb, fault, obtained, attrs,
          playback, devObj, ctxObj, current, checked, ctxAttrs, buffer, bufObj,
          source, srcObj, srcBuffer, srcState, remaining, alError, state,
          polled, log>>

\* Largest channel count the audio backend may hand back.
MaxChannels == 3

\* Sample rates the audio backend may hand back.
Rates == {22050, 44100}

\* Sample encodings the audio backend may hand back.
SDLFormats == {"AUDIO_U8", "AUDIO_S8", "AUDIO_U16SYS", "AUDIO_S16SYS", "AUDIO_S32SYS"}

\* desired.samples
DesiredSamples == 4096

\* Bits per sample of an SDL encoding (SDL: format & 0xFF).
SDLBits(f) ==
    CASE f \in {"AUDIO_U8", "AUDIO_S8"} -> 8
      [] f \in {"AUDIO_U16SYS", "AUDIO_S16SYS"} -> 16
      [] OTHER -> 32

\* Bytes of one callback request: obtained.size.
StreamLen(o) == o.samples * o.channels * (SDLBits(o.format) \div 8)

\* FramesToBytes(1, channels, type) of common/alhelpers.
ChannelsOf(c) == IF c = "ALC_MONO_SOFT" THEN 1 ELSE IF c = "ALC_STEREO_SOFT" THEN 2 ELSE 0

BytesOf(t) ==
    CASE t \in {"ALC_BYTE_SOFT", "ALC_UNSIGNED_BYTE_SOFT"} -> 1
      [] t \in {"ALC_SHORT_SOFT", "ALC_UNSIGNED_SHORT_SOFT"} -> 2
      [] OTHER -> 0

FramesToBytes(n, c, t) == n * ChannelsOf(c) * BytesOf(t)

NoSpec == [channels |-> 0, format |-> "unset", freq |-> 0, samples |-> 0]
NoAttrs == [chan |-> "unset", type |-> "unset", freq |-> 0]
NoCheck == [called |-> FALSE, freq |-> 0, chan |-> "unset", type |-> "unset", result |-> FALSE]

Init ==
    /\ pc = "probe"
    /\ exit = "running"
    /\ ndebug \in BOOLEAN
    /\ sdl = "off"
    /\ audio = "none"
    /\ paused = TRUE
    /\ cb = "idle"
    /\ fault = FALSE
    /\ obtained = NoSpec
    /\ attrs = NoAttrs
    /\ playback = [Device |-> "NULL", Context |-> "NULL", FrameSize |-> 0]
    /\ devObj = "none"
    /\ ctxObj = "none"
    /\ current = FALSE
    /\ checked = NoCheck
    /\ ctxAttrs = NoAttrs
    /\ buffer = 0
    /\ bufObj = "none"
    /\ source = 0
    /\ srcObj = "none"
    /\ srcBuffer = 0
    /\ srcState = "AL_INITIAL"
    /\ remaining = 0
    /\ alError = FALSE
    /\ state = "unset"
    /\ polled = "none"
    /\ log = << >>

Call(name, ok) == log' = Append(log, <<name, ok>>)

Return(status) == exit' = status /\ pc' = "done"

AtMain(p) == pc = p /\ exit = "running"

\* line 104: the capability probe.
Probe ==
    /\ AtMain("probe")
    /\ \E ok \in BOOLEAN :
        /\ Call("alcIsExtensionPresent", ok)
        /\ IF ok THEN pc' = "sdl_init" /\ exit' = exit ELSE Return("return1")
    /\ UNCHANGED <<ndebug, sdl, audio, paused, cb, fault, obtained, attrs, playback,
                   devObj, ctxObj, current, checked, ctxAttrs, buffer, bufObj, source,
                   srcObj, srcBuffer, srcState, remaining, alError, state, polled>>

\* line 117: SDL_Init(SDL_INIT_AUDIO).
SdlInit ==
    /\ AtMain("sdl_init")
    /\ \E ok \in BOOLEAN :
        /\ Call("SDL_Init", ok)
        /\ IF ok THEN sdl' = "on" /\ pc' = "open_audio" /\ exit' = exit
                 ELSE sdl' = sdl /\ Return("return1")
    /\ UNCHANGED <<ndebug, audio, paused, cb, fault, obtained, attrs, playback,
                   devObj, ctxObj, current, checked, ctxAttrs, buffer, bufObj, source,
                   srcObj, srcBuffer, srcState, remaining, alError, state, polled>>

\* lines 124-136: SDL_OpenAudio; on failure SDL_Quit and return 1.  The stream
\* is opened paused: no callback runs before SDL_PauseAudio(0).
OpenAudio ==
    /\ AtMain("open_audio")
    /\ \/ /\ log' = log \o << <<"SDL_OpenAudio", FALSE>>, <<"SDL_Quit", TRUE>> >>
          /\ sdl' = "quit"
          /\ Return("return1")
          /\ UNCHANGED <<audio, paused, obtained>>
       \/ \E c \in 1..MaxChannels, f \in SDLFormats, r \in Rates :
          /\ Call("SDL_OpenAudio", TRUE)
          /\ audio' = "open"
          /\ paused' = TRUE
          /\ obtained' = [channels |-> c, format |-> f, freq |-> r,
                          samples |-> DesiredSamples]
          /\ pc' = "attrs_channels"
          /\ UNCHANGED <<sdl, exit>>
    /\ UNCHANGED <<ndebug, cb, fault, attrs, playback, devObj, ctxObj, current, checked,
                   ctxAttrs, buffer, bufObj, source, srcObj, srcBuffer, srcState,
                   remaining, alError, state, polled>>

\* Mutation: every channel count but 1 is taken for stereo.
ChannelMarkerFallback(c) == IF c = 1 THEN "ALC_MONO_SOFT" ELSE "ALC_STEREO_SOFT"

\* lines 139-148: attrs[1] from obtained.channels.
ChannelMarker(c) ==
    IF c = 1 THEN "ALC_MONO_SOFT" ELSE IF c = 2 THEN "ALC_STEREO_SOFT" ELSE "unhandled"

AttrsChannels ==
    /\ AtMain("attrs_channels")
    /\ LET m == ChannelMarker(obtained.channels) IN
        IF m = "unhandled"
        THEN /\ Call("channels", FALSE)
             /\ pc' = "e_close_audio"
             /\ attrs' = attrs
        ELSE /\ Call("channels", TRUE)
             /\ attrs' = [attrs EXCEPT !.chan = m]
             /\ pc' = "attrs_format"
    /\ UNCHANGED <<exit, ndebug, sdl, audio, paused, cb, fault, obtained, playback,
                   devObj, ctxObj, current, checked, ctxAttrs, buffer, bufObj, source,
                   srcObj, srcBuffer, srcState, remaining, alError, state, polled>>

\* lines 150-168: attrs[3] from obtained.format, attrs[5] from obtained.freq.
TypeMarker(f) ==
    CASE f = "AUDIO_U8" -> "ALC_UNSIGNED_BYTE_SOFT"
      [] f = "AUDIO_S8" -> "ALC_BYTE_SOFT"
      [] f = "AUDIO_U16SYS" -> "ALC_UNSIGNED_SHORT_SOFT"
      [] f = "AUDIO_S16SYS" -> "ALC_SHORT_SOFT"
      [] OTHER -> "unhandled"

AttrsFormat ==
    /\ AtMain("attrs_format")
    /\ LET m == TypeMarker(obtained.format) IN
        IF m = "unhandled"
        THEN /\ Call("format", FALSE)
             /\ pc' = "e_close_audio"
             /\ attrs' = attrs
        ELSE /\ Call("format", TRUE)
             /\ attrs' = [attrs EXCEPT !.type = m, !.freq = obtained.freq]
             /\ pc' = "open_device"
    /\ UNCHANGED <<exit, ndebug, sdl, audio, paused, cb, fault, obtained, playback,
                   devObj, ctxObj, current, checked, ctxAttrs, buffer, bufObj, source,
                   srcObj, srcBuffer, srcState, remaining, alError, state, polled>>

\* Groups of variables, for the UNCHANGED clauses.
sdlVars == <<sdl, audio, paused>>
cbVars == <<cb, fault>>
fmtVars == <<obtained, attrs>>
alcVars == <<playback, devObj, ctxObj, current, checked, ctxAttrs>>
alVars == <<buffer, bufObj, source, srcObj, srcBuffer, srcState, remaining, alError,
            state, polled>>

\* lines 171-176: playback.Device = alcLoopbackOpenDeviceSOFT(NULL).
OpenDevice ==
    /\ AtMain("open_device")
    /\ \E ok \in BOOLEAN :
        /\ Call("alcLoopbackOpenDeviceSOFT", ok)
        /\ IF ok
           THEN /\ playback' = [playback EXCEPT !.Device = "dev"]
                /\ devObj' = "open"
                /\ pc' = "check_format"
           ELSE /\ UNCHANGED <<playback, devObj>>
                /\ pc' = "e_close_audio"
    /\ UNCHANGED <<exit, ndebug, sdlVars, cbVars, fmtVars, ctxObj, current, checked,
                   ctxAttrs, alVars>>

\* Mutation: the answer of alcIsRenderFormatSupportedSOFT is not acted on.
CheckFormatIgnored ==
    /\ AtMain("check_format")
    /\ \E ok \in BOOLEAN :
        /\ Call("alcIsRenderFormatSupportedSOFT", ok)
        /\ checked' = [called |-> TRUE, freq |-> attrs.freq, chan |-> attrs.chan,
                       type |-> attrs.type, result |-> ok]
        /\ pc' = "create_context"
    /\ UNCHANGED <<exit, ndebug, sdlVars, cbVars, fmtVars, playback, devObj, ctxObj,
                   current, ctxAttrs, alVars>>

\* lines 178-183: alcIsRenderFormatSupportedSOFT(playback.Device, attrs[5],
\* attrs[1], attrs[3]); the device's answer is the environment's.
CheckFormat ==
    /\ AtMain("check_format")
    /\ \E ok \in BOOLEAN :
        /\ Call("alcIsRenderFormatSupportedSOFT", ok)
        /\ checked' = [called |-> TRUE, freq |-> attrs.freq, chan |-> attrs.chan,
                       type |-> attrs.type, result |-> ok]
        /\ pc' = IF ok THEN "create_context" ELSE "e_close_audio"
    /\ UNCHANGED <<exit, ndebug, sdlVars, cbVars, fmtVars, playback, devObj, ctxObj,
                   current, ctxAttrs, alVars>>

\* Mutation: a failed alcMakeContextCurrent is not taken for a failure.
CreateContextUnchecked ==
    /\ AtMain("create_context")
    /\ ctxAttrs' = attrs
    /\ \/ /\ Call("alcCreateContext", FALSE)
          /\ UNCHANGED <<playback, ctxObj, current>>
          /\ pc' = "e_close_audio"
       \/ /\ playback' = [playback EXCEPT !.Context = "ctx"]
          /\ ctxObj' = "live"
          /\ \E ok \in BOOLEAN :
              /\ log' = log \o << <<"alcCreateContext", TRUE>>,
                                  <<"alcMakeContextCurrent", ok>> >>
              /\ current' = ok
              /\ pc' = "frame_size"
    /\ UNCHANGED <<exit, ndebug, sdlVars, cbVars, fmtVars, devObj, checked, alVars>>

\* lines 184-189: playback.Context = alcCreateContext(playback.Device, attrs),
\* then alcMakeContextCurrent(playback.Context) unless the context is NULL.
CreateContext ==
    /\ AtMain("create_context")
    /\ ctxAttrs' = attrs
    /\ \/ /\ Call("alcCreateContext", FALSE)
          /\ UNCHANGED <<playback, ctxObj, current>>
          /\ pc' = "e_close_audio"
       \/ /\ playback' = [playback EXCEPT !.Context = "ctx"]
          /\ ctxObj' = "live"
          /\ \E ok \in BOOLEAN :
              /\ log' = log \o << <<"alcCreateContext", TRUE>>,
                                  <<"alcMakeContextCurrent", ok>> >>
              /\ current' = ok
              /\ pc' = IF ok THEN "frame_size" ELSE "e_close_audio"
    /\ UNCHANGED <<exit, ndebug, sdlVars, cbVars, fmtVars, devObj, checked, alVars>>

\* line 190: playback.FrameSize = FramesToBytes(1, attrs[1], attrs[3]).
SetFrameSize ==
    /\ AtMain("frame_size")
    /\ playback' = [playback EXCEPT !.FrameSize = FramesToBytes(1, attrs.chan, attrs.type)]
    /\ pc' = "pause0"
    /\ UNCHANGED <<exit, ndebug, sdlVars, cbVars, fmtVars, devObj, ctxObj, current,
                   checked, ctxAttrs, alVars, log>>

\* Mutation: the stream is never unpaused.
StartAudioForgotten ==
    /\ AtMain("pause0")
    /\ pc' = "create_sine"
    /\ UNCHANGED <<exit, ndebug, sdlVars, cbVars, fmtVars, alcVars, alVars, log>>

\* line 194: SDL_PauseAudio(0): the callback starts being called.
StartAudio ==
    /\ AtMain("pause0")
    /\ paused' = FALSE
    /\ Call("SDL_PauseAudio(0)", TRUE)
    /\ pc' = "create_sine"
    /\ UNCHANGED <<exit, ndebug, sdl, audio, cbVars, fmtVars, alcVars, alVars>>

\* lines 66-92 and 197-198: buffer = CreateSineWave().  alGenBuffers or
\* alBufferData may record an error; then the buffer, if one was generated, is
\* deleted and 0 is returned.
CreateSineWave ==
    /\ AtMain("create_sine")
    /\ \/ /\ log' = log \o << <<"alGenBuffers", TRUE>>, <<"alBufferData", TRUE>> >>
          /\ buffer' = 1
          /\ bufObj' = "live"
          /\ pc' = "gen_source"
       \/ /\ log' = log \o << <<"alGenBuffers", FALSE>>, <<"alBufferData", FALSE>> >>
          /\ buffer' = 0
          /\ bufObj' = bufObj
          /\ pc' = "b_close_audio"
       \/ /\ log' = log \o << <<"alGenBuffers", TRUE>>, <<"alBufferData", FALSE>>,
                              <<"alDeleteBuffers", TRUE>> >>
          /\ buffer' = 0
          /\ bufObj' = "deleted"
          /\ pc' = "b_close_audio"
    /\ UNCHANGED <<exit, ndebug, sdlVars, cbVars, fmtVars, alcVars, source, srcObj,
                   srcBuffer, srcState, remaining, alError, state, polled>>

\* lines 208-210: alGenSources(1, &source); alSourcei(source, AL_BUFFER, buffer).
\* A failing call latches an AL error.
GenSource ==
    /\ AtMain("gen_source")
    /\ \/ /\ log' = log \o << <<"alGenSources", TRUE>>, <<"alSourcei", TRUE>> >>
          /\ source' = 1
          /\ srcObj' = "live"
          /\ srcBuffer' = buffer
          /\ alError' = alError
       \/ /\ log' = log \o << <<"alGenSources", TRUE>>, <<"alSourcei", FALSE>> >>
          /\ source' = 1
          /\ srcObj' = "live"
          /\ srcBuffer' = 0
          /\ alError' = TRUE
       \/ /\ log' = log \o << <<"alGenSources", FALSE>>, <<"alSourcei", FALSE>> >>
          /\ source' = 0
          /\ UNCHANGED <<srcObj, srcBuffer>>
          /\ alError' = TRUE
    /\ pc' = "setup_assert"
    /\ UNCHANGED <<exit, ndebug, sdlVars, cbVars, fmtVars, alcVars, buffer, bufObj,
                   srcState, remaining, state, polled>>

\* line 211: assert(alGetError()==AL_NO_ERROR && ...).  With NDEBUG the whole
\* expression, alGetError() included, is compiled out; otherwise alGetError
\* clears the latch and a recorded error aborts the process.
SetupAssert ==
    /\ AtMain("setup_assert")
    /\ IF ndebug
       THEN /\ pc' = "play"
            /\ UNCHANGED <<exit, alError>>
       ELSE /\ alError' = FALSE
            /\ IF alError THEN Return("abort") ELSE pc' = "play" /\ exit' = exit
    /\ UNCHANGED <<ndebug, sdlVars, cbVars, fmtVars, alcVars, buffer, bufObj, source,
                   srcObj, srcBuffer, srcState, remaining, state, polled, log>>

\* line 214: alSourcePlay(source).  A source with no buffer attached stops at
\* once; an invalid source name records an error.  One second of audio is
\* obtained.freq output frames.
SourcePlay ==
    /\ AtMain("play")
    /\ IF srcObj = "live"
       THEN /\ alError' = alError
            /\ IF srcBuffer # 0
               THEN srcState' = "AL_PLAYING" /\ remaining' = obtained.freq
               ELSE srcState' = "AL_STOPPED" /\ remaining' = 0
       ELSE /\ alError' = TRUE
            /\ UNCHANGED <<srcState, remaining>>
    /\ pc' = "sleep"
    /\ UNCHANGED <<exit, ndebug, sdlVars, cbVars, fmtVars, alcVars, buffer, bufObj,
                   source, srcObj, srcBuffer, state, polled, log>>

\* line 216: Sleep(10).
PollSleep ==
    /\ AtMain("sleep")
    /\ pc' = "query"
    /\ UNCHANGED <<exit, ndebug, sdlVars, cbVars, fmtVars, alcVars, alVars, log>>

\* line 217: alGetSourcei(source, AL_SOURCE_STATE, &state).  On an invalid
\* source, or a backend error, state is not written and an error is latched.
PollQuery ==
    /\ AtMain("query")
    /\ \/ /\ srcObj = "live"
          /\ state' = srcState
          /\ alError' = alError
       \/ /\ alError' = TRUE
          /\ state' = state
    /\ pc' = "loop_check"
    /\ UNCHANGED <<exit, ndebug, sdlVars, cbVars, fmtVars, alcVars, buffer, bufObj,
                   source, srcObj, srcBuffer, srcState, remaining, polled, log>>

\* line 218: while(alGetError() == AL_NO_ERROR && state == AL_PLAYING).
LoopCheck ==
    /\ AtMain("loop_check")
    /\ alError' = FALSE
    /\ polled' = IF alError THEN "error" ELSE "state"
    /\ pc' = IF ~alError /\ state = "AL_PLAYING" THEN "sleep" ELSE "delete_source"
    /\ UNCHANGED <<exit, ndebug, sdlVars, cbVars, fmtVars, alcVars, buffer, bufObj,
                   source, srcObj, srcBuffer, srcState, remaining, state, log>>

\* Mutation: the source is not deleted before the buffer.
DeleteSourceSkipped ==
    /\ AtMain("delete_source")
    /\ pc' = "delete_buffer"
    /\ UNCHANGED <<exit, ndebug, sdlVars, cbVars, fmtVars, alcVars, alVars, log>>

\* line 221: alDeleteSources(1, &source).
DeleteSource ==
    /\ AtMain("delete_source")
    /\ IF srcObj = "live"
       THEN /\ srcObj' = "deleted"
            /\ Call("alDeleteSources", TRUE)
            /\ alError' = alError
       ELSE /\ srcObj' = srcObj
            /\ Call("alDeleteSources", FALSE)
            /\ alError' = TRUE
    /\ pc' = "delete_buffer"
    /\ UNCHANGED <<exit, ndebug, sdlVars, cbVars, fmtVars, alcVars, buffer, bufObj,
                   source, srcBuffer, srcState, remaining, state, polled>>

\* line 222: alDeleteBuffers(1, &buffer).  A buffer still attached to a live
\* source cannot be deleted (AL_INVALID_OPERATION).
DeleteBuffer ==
    /\ AtMain("delete_buffer")
    /\ IF bufObj = "live" /\ ~(srcObj = "live" /\ srcBuffer = buffer)
       THEN /\ bufObj' = "deleted"
            /\ Call("alDeleteBuffers", TRUE)
            /\ alError' = alError
       ELSE /\ bufObj' = bufObj
            /\ Call("alDeleteBuffers", FALSE)
            /\ alError' = TRUE
    /\ pc' = "pause1"
    /\ UNCHANGED <<exit, ndebug, sdlVars, cbVars, fmtVars, alcVars, buffer, source,
                   srcObj, srcBuffer, srcState, remaining, state, polled>>

\* line 225: SDL_PauseAudio(1).
StopAudio ==
    /\ AtMain("pause1")
    /\ paused' = TRUE
    /\ Call("SDL_PauseAudio(1)", TRUE)
    /\ pc' = "n_close_audio"
    /\ UNCHANGED <<exit, ndebug, sdl, audio, cbVars, fmtVars, alcVars, alVars>>

\* SDL_CloseAudio(): no further callback is started, and the call returns
\* once the callback in progress, if any, has returned.
CloseAudio(next) ==
    /\ cb = "idle" \/ audio = "open"
    /\ IF cb = "idle"
       THEN /\ audio' = "closed"
            /\ Call("SDL_CloseAudio", audio \in {"open", "closing"})
            /\ pc' = next
       ELSE /\ audio' = "closing"
            /\ UNCHANGED <<pc, log>>
    /\ UNCHANGED <<exit, ndebug, sdl, paused, cbVars, fmtVars, alcVars, alVars>>

\* alcDestroyContext(playback.Context).
DestroyContext(next) ==
    /\ IF playback.Context # "NULL" /\ ctxObj = "live"
       THEN /\ ctxObj' = "destroyed"
            /\ current' = FALSE
            /\ Call("alcDestroyContext", TRUE)
       ELSE /\ UNCHANGED <<ctxObj, current>>
            /\ Call("alcDestroyContext", FALSE)
    /\ pc' = next
    /\ UNCHANGED <<exit, ndebug, sdlVars, cbVars, fmtVars, playback, devObj, checked,
                   ctxAttrs, alVars>>

\* alcCloseDevice(playback.Device).  The context object is left as it is, so
\* that a context not destroyed before its device shows as a live context on a
\* closed device.
CloseDevice(next) ==
    /\ IF playback.Device # "NULL" /\ devObj = "open"
       THEN /\ devObj' = "closed"
            /\ Call("alcCloseDevice", TRUE)
       ELSE /\ devObj' = devObj
            /\ Call("alcCloseDevice", FALSE)
    /\ pc' = next
    /\ UNCHANGED <<exit, ndebug, sdlVars, cbVars, fmtVars, playback, ctxObj, current,
                   checked, ctxAttrs, alVars>>

\* SDL_Quit(); return status.
QuitAndReturn(status) ==
    /\ sdl' = "quit"
    /\ Call("SDL_Quit", sdl = "on")
    /\ Return(status)
    /\ UNCHANGED <<ndebug, audio, paused, cbVars, fmtVars, alcVars, alVars>>

\* Mutation: the buffer-failure teardown leaves the stream running.
BufFailCloseAudioSkipped ==
    /\ AtMain("b_close_audio")
    /\ pc' = "b_destroy_ctx"
    /\ UNCHANGED <<exit, ndebug, sdlVars, cbVars, fmtVars, alcVars, alVars, log>>

\* lines 200-204: the teardown when CreateSineWave returned 0.
BufFailCloseAudio == AtMain("b_close_audio") /\ CloseAudio("b_destroy_ctx")

BufFailDestroyContext == AtMain("b_destroy_ctx") /\ DestroyContext("b_close_dev")

BufFailCloseDevice == AtMain("b_close_dev") /\ CloseDevice("b_quit")

BufFailQuit == AtMain("b_quit") /\ QuitAndReturn("return1")

\* Mutation: normal completion destroys the context with the stream still open.
DoneCloseAudioSkipped ==
    /\ AtMain("n_close_audio")
    /\ pc' = "n_destroy_ctx"
    /\ UNCHANGED <<exit, ndebug, sdlVars, cbVars, fmtVars, alcVars, alVars, log>>

\* lines 228-233: the teardown of normal completion.
DoneCloseAudio == AtMain("n_close_audio") /\ CloseAudio("n_destroy_ctx")

DoneDestroyContext == AtMain("n_destroy_ctx") /\ DestroyContext("n_close_dev")

DoneCloseDevice == AtMain("n_close_dev") /\ CloseDevice("n_quit")

DoneQuit == AtMain("n_quit") /\ QuitAndReturn("return0")

\* lines 235-243: the error label.
ErrCloseAudio == AtMain("e_close_audio") /\ CloseAudio("e_destroy_ctx")

\* Mutation: the error label destroys playback.Context without the null test.
ErrDestroyContextUnguarded == AtMain("e_destroy_ctx") /\ DestroyContext("e_close_dev")

ErrDestroyContext ==
    /\ AtMain("e_destroy_ctx")
    /\ IF playback.Context # "NULL"
       THEN DestroyContext("e_close_dev")
       ELSE /\ pc' = "e_close_dev"
            /\ UNCHANGED <<exit, ndebug, sdlVars, cbVars, fmtVars, alcVars, alVars, log>>

\* Mutation: the error label forgets alcCloseDevice.
ErrCloseDeviceSkipped ==
    /\ AtMain("e_close_dev")
    /\ pc' = "e_quit"
    /\ UNCHANGED <<exit, ndebug, sdlVars, cbVars, fmtVars, alcVars, alVars, log>>

ErrCloseDevice ==
    /\ AtMain("e_close_dev")
    /\ IF playback.Device # "NULL"
       THEN CloseDevice("e_quit")
       ELSE /\ pc' = "e_quit"
            /\ UNCHANGED <<exit, ndebug, sdlVars, cbVars, fmtVars, alcVars, alVars, log>>

ErrQuit == AtMain("e_quit") /\ QuitAndReturn("return1")

\* The audio backend's thread enters the fill-buffer callback: only on an open,
\* unpaused stream of a live process.
CallbackEnter ==
    /\ exit = "running"
    /\ audio = "open"
    /\ ~paused
    /\ cb = "idle"
    /\ cb' = "rendering"
    /\ UNCHANGED <<pc, exit, ndebug, sdlVars, fault, fmtVars, alcVars, alVars, log>>

\* lines 57-61: alcRenderSamplesSOFT(playback->Device, stream,
\* len/playback->FrameSize).  Rendering advances a playing source of the live
\* context by the frames rendered; at the end of its buffer the source stops.
RenderSDLSamples ==
    /\ exit = "running"
    /\ cb = "rendering"
    /\ cb' = "idle"
    /\ IF playback.FrameSize = 0 \/ playback.Device = "NULL" \/ devObj # "open"
       THEN /\ fault' = TRUE
            /\ UNCHANGED <<srcState, remaining>>
       ELSE /\ fault' = fault
            /\ LET frames == StreamLen(obtained) \div playback.FrameSize
                   left == IF remaining > frames THEN remaining - frames ELSE 0
               IN  IF ctxObj = "live" /\ srcObj = "live" /\ srcState = "AL_PLAYING"
                   THEN /\ remaining' = left
                        /\ srcState' = IF left = 0 THEN "AL_STOPPED" ELSE srcState
                   ELSE UNCHANGED <<srcState, remaining>>
    /\ UNCHANGED <<pc, exit, ndebug, sdlVars, fmtVars, alcVars, buffer, bufObj, source,
                   srcObj, srcBuffer, alError, state, polled, log>>

Main ==
    \/ Probe \/ SdlInit \/ OpenAudio \/ AttrsChannels \/ AttrsFormat
    \/ OpenDevice \/ CheckFormat \/ CreateContext \/ SetFrameSize \/ StartAudio
    \/ CreateSineWave \/ GenSource \/ SetupAssert \/ SourcePlay
    \/ PollSleep \/ PollQuery \/ LoopCheck
    \/ DeleteSource \/ DeleteBuffer \/ StopAudio
    \/ BufFailCloseAudio \/ BufFailDestroyContext \/ BufFailCloseDevice \/ BufFailQuit
    \/ DoneCloseAudio \/ DoneDestroyContext \/ DoneCloseDevice \/ DoneQuit
    \/ ErrCloseAudio \/ ErrDestroyContext \/ ErrCloseDevice \/ ErrQuit

Next == Main \/ CallbackEnter \/ RenderSDLSamples

Spec == Init /\ [][Next]_vars

\* The scheduler runs main whenever it can take a step, and the audio backend
\* keeps calling the callback of an unpaused stream and lets it return.
LiveSpec == Spec /\ WF_vars(Main) /\ WF_vars(CallbackEnter) /\ WF_vars(RenderSDLSamples)

----------------------------------------------------------------------------
\* Reading the call log.

CallsOf(name) == {i \in DOMAIN log : log[i][1] = name}

Called(name) == CallsOf(name) # {}

Has(name, ok) == \E i \in DOMAIN log : log[i] = <<name, ok>>

\* Every call of b comes after some call of a.
Precedes(a, b) == \A j \in CallsOf(b) : \E i \in CallsOf(a) : i < j

\* The resources of main, in the order main acquires them, each with the call
\* that acquires it and the call that releases it.
Resources ==
    << [acq |-> "SDL_Init", rel |-> "SDL_Quit"],
       [acq |-> "SDL_OpenAudio", rel |-> "SDL_CloseAudio"],
       [acq |-> "alcLoopbackOpenDeviceSOFT", rel |-> "alcCloseDevice"],
       [acq |-> "alcCreateContext", rel |-> "alcDestroyContext"],
       [acq |-> "alGenBuffers", rel |-> "alDeleteBuffers"],
       [acq |-> "alGenSources", rel |-> "alDeleteSources"] >>

Acquired(r) == Has(Resources[r].acq, TRUE)

Released(r) == Has(Resources[r].rel, TRUE)

RelIdx(r) == CHOOSE i \in DOMAIN log : log[i] = <<Resources[r].rel, TRUE>>

\* No resource is held: neither by the log nor by the objects' states.
AllReleased ==
    /\ \A r \in DOMAIN Resources : Acquired(r) => Released(r)
    /\ sdl # "on"
    /\ audio \notin {"open", "closing"}
    /\ devObj # "open"
    /\ ctxObj # "live"
    /\ bufObj # "live"
    /\ srcObj # "live"

\* Releases happen in the reverse of the order of acquisition.
ReverseAcquisitionOrder ==
    \A a, b \in DOMAIN Resources :
        (a < b /\ Released(a) /\ Released(b)) => RelIdx(b) < RelIdx(a)

\* The order the code's teardowns follow: source, buffer, audio stream,
\* context, device, SDL subsystem.
TeardownRank(r) ==
    CASE r = 6 -> 1 [] r = 5 -> 2 [] r = 2 -> 3 [] r = 4 -> 4 [] r = 3 -> 5 [] r = 1 -> 6

TeardownOrder ==
    \A a, b \in DOMAIN Resources :
        (TeardownRank(a) < TeardownRank(b) /\ Released(a) /\ Released(b))
            => RelIdx(a) < RelIdx(b)

SetupCalls ==
    {"alcIsExtensionPresent", "SDL_Init", "SDL_OpenAudio", "channels", "format",
     "alcLoopbackOpenDeviceSOFT", "alcIsRenderFormatSupportedSOFT", "alcCreateContext",
     "alcMakeContextCurrent", "alGenBuffers", "alBufferData", "alGenSources", "alSourcei"}

SetupFailed == \E n \in SetupCalls : Has(n, FALSE)

----------------------------------------------------------------------------
C2_StreamThenContextThenDevice ==
    /\ Precedes("SDL_CloseAudio", "alcDestroyContext")
    /\ Precedes("SDL_CloseAudio", "alcCloseDevice")
    /\ Has("alcCreateContext", TRUE) => Precedes("alcDestroyContext", "alcCloseDevice")
    /\ \A i \in CallsOf("alcCloseDevice") : \A j \in CallsOf("alcDestroyContext") : j < i
    /\ \A i \in CallsOf("alcDestroyContext") : \A j \in CallsOf("SDL_CloseAudio") : j < i
    /\ ctxObj = "destroyed" => audio = "closed"
    /\ devObj = "closed" => audio = "closed" /\ ctxObj # "live"
    /\ (exit \in {"return0", "return1"} /\ Has("alcCreateContext", TRUE)) =>
        Has("SDL_CloseAudio", TRUE) /\ Has("alcDestroyContext", TRUE)
            /\ Has("alcCloseDevice", TRUE)

C2_Witness ==
    /\ exit = "return1"
    /\ Has("alcMakeContextCurrent", FALSE)
    /\ Has("SDL_CloseAudio", TRUE) /\ Has("alcDestroyContext", TRUE)
    /\ Has("alcCloseDevice", TRUE)

\* C3: the callback runs only between SDL_PauseAudio(0) and the return of
\* SDL_CloseAudio, on an open device with a live current context and the final
\* non-zero FrameSize, and inside that window main writes no field of
\* playback and destroys no handle.
InWindow == Has("SDL_PauseAudio(0)", TRUE) /\ audio \in {"open", "closing"}

C3_CallbackSeesStableSession ==
    /\ [](cb = "rendering" =>
            /\ InWindow
            /\ playback.Device # "NULL" /\ devObj = "open"
            /\ playback.Context # "NULL" /\ ctxObj = "live" /\ current
            /\ playback.FrameSize > 0
            /\ playback.FrameSize = FramesToBytes(1, attrs.chan, attrs.type))
    /\ [](~fault)
    /\ [][InWindow => /\ playback' = playback
                      /\ devObj' = devObj
                      /\ ctxObj' = ctxObj
                      /\ current' = current]_vars

C3_Witness == cb = "rendering" /\ srcState = "AL_PLAYING" /\ pc = "query"

\* C4 as stated: a setup failure ends in status 1, status 0 needs every setup
\* step to have succeeded and the polling loop to have ended, and no setup
\* call is made twice.
C4_ExitStatus ==
    /\ (exit # "running" /\ SetupFailed) => exit = "return1"
    /\ exit = "return0" => ~SetupFailed /\ polled # "none"
    /\ \A n \in SetupCalls : Cardinality(CallsOf(n)) <= 1

\* C5: once the backend handed back a channel count outside {1,2} or an
\* encoding outside the four handled, no loopback device is opened, no render
\* format is checked, no context is created, and main ends with status 1.
Unsupported ==
    /\ Has("SDL_OpenAudio", TRUE)
    /\ \/ obtained.channels \notin {1, 2}
       \/ obtained.format \notin {"AUDIO_U8", "AUDIO_S8", "AUDIO_U16SYS", "AUDIO_S16SYS"}

C5_NoDeviceOnUnsupportedFormat ==
    Unsupported =>
        /\ ~Called("alcLoopbackOpenDeviceSOFT")
        /\ ~Called("alcIsRenderFormatSupportedSOFT")
        /\ ~Called("alcCreateContext")
        /\ devObj = "none" /\ ctxObj = "none"
        /\ exit \in {"running", "return1"}
        /\ pc = "done" => exit = "return1"

C5_Witness ==
    /\ Unsupported
    /\ obtained.channels \in {1, 2}
    /\ exit = "return1"

\* C6: alcCreateContext is called only after alcIsRenderFormatSupportedSOFT
\* returned true for the rate, channel marker and type marker of the attribute
\* list it is given; after a false answer no context is created and main ends
\* with status 1.
C6_ContextOnlyForCheckedFormat ==
    /\ Called("alcCreateContext") =>
        /\ Has("alcIsRenderFormatSupportedSOFT", TRUE)
        /\ checked.called /\ checked.result
        /\ checked.freq = ctxAttrs.freq /\ checked.freq = obtained.freq
        /\ checked.chan = ctxAttrs.chan /\ checked.chan = ChannelMarker(obtained.channels)
        /\ checked.type = ctxAttrs.type /\ checked.type = TypeMarker(obtained.format)
        /\ Precedes("alcIsRenderFormatSupportedSOFT", "alcCreateContext")
    /\ (checked.called /\ ~checked.result) =>
        /\ ~Called("alcCreateContext")
        /\ ctxObj = "none"
        /\ pc = "done" => exit = "return1"

C6_Witness == Has("alcCreateContext", TRUE) /\ ctxObj = "live" /\ checked.result

\* C7: once every setup step has succeeded, main eventually returns 0 with
\* everything released; the polling loop is left only to the deletions, after
\* a poll that saw an error or a state other than playing (after a successful
\* setup no error is pending when the state is queried, so the error is the
\* query's); and from there main returns 0.
SetupSucceeded == pc = "play" /\ exit = "running" /\ ~SetupFailed

C7_TerminatesWithZero ==
    /\ SetupSucceeded ~> (exit = "return0" /\ AllReleased)
    /\ [][(pc = "loop_check" /\ pc' # "loop_check") =>
            \/ pc' = "sleep" /\ polled' = "state" /\ state = "AL_PLAYING"
            \/ pc' = "delete_source" /\ polled' = "error"
            \/ pc' = "delete_source" /\ polled' = "state" /\ state # "AL_PLAYING"]_vars
    /\ [](pc = "delete_source" => polled # "none")
    /\ []((pc = "query" /\ ~SetupFailed) => ~alError)
    /\ (pc = "delete_source") ~> (exit = "return0" /\ AllReleased)

C7_Witness ==
    /\ exit = "return0"
    /\ ~SetupFailed
    /\ polled = "state" /\ state = "AL_STOPPED" /\ remaining = 0

\* C8: a live source's buffer is live; where both were created the buffer is
\* deleted only after the source; and source and buffer are deleted only after
\* the polling loop has ended.
AfterLoop ==
    pc \in {"delete_buffer", "pause1", "n_close_audio", "n_destroy_ctx", "n_close_dev",
            "n_quit", "done"}

C8_SourceBeforeBuffer ==
    /\ (srcObj = "live" /\ srcBuffer # 0) => (bufObj = "live" /\ srcBuffer = buffer)
    /\ Has("alGenSources", TRUE) => Precedes("alDeleteSources", "alDeleteBuffers")
    /\ (Has("alGenSources", TRUE) /\ bufObj = "deleted") => srcObj = "deleted"
    /\ Called("alDeleteSources") => AfterLoop /\ polled # "none"
    /\ (Called("alGenSources") /\ Called("alDeleteBuffers")) =>
        AfterLoop /\ pc # "delete_buffer" /\ polled # "none"

C8_Witness == srcObj = "deleted" /\ bufObj = "deleted" /\ srcBuffer = buffer

\* C9: a live context sits on an open device, and FrameSize is non-zero only
\* after a context was created and made current.
C9_ContextNeedsDevice ==
    /\ ctxObj = "live" => devObj = "open" /\ playback.Device # "NULL"
    /\ playback.FrameSize # 0 =>
        Has("alcCreateContext", TRUE) /\ Has("alcMakeContextCurrent", TRUE)

C9_Witness == playback.FrameSize # 0 /\ ctxObj = "destroyed" /\ devObj = "closed"

\* C10: alcDestroyContext is called at most once and only on a live context,
\* alcCloseDevice at most once and only on an open device; a teardown with a
\* device but no context closes the device and does not call
\* alcDestroyContext.
C10_NoReleaseOfNull ==
    /\ ~Has("alcDestroyContext", FALSE)
    /\ ~Has("alcCloseDevice", FALSE)
    /\ Cardinality(CallsOf("alcDestroyContext")) <= 1
    /\ Cardinality(CallsOf("alcCloseDevice")) <= 1
    /\ ~Has("alcCreateContext", TRUE) => ~Called("alcDestroyContext")
    /\ ~Has("alcLoopbackOpenDeviceSOFT", TRUE) => ~Called("alcCloseDevice")
    /\ (pc = "done" /\ Has("alcLoopbackOpenDeviceSOFT", TRUE)
            /\ ~Has("alcCreateContext", TRUE)) =>
        /\ exit = "return1"
        /\ Has("alcCloseDevice", TRUE)
        /\ devObj = "closed"

C10_Witness ==
    /\ pc = "done"
    /\ Has("alcCreateContext", FALSE)
    /\ Has("alcCloseDevice", TRUE)
    /\ ~Called("alcDestroyContext")

====
